---- MODULE Spec2Model ----
(***************************************************************************)
(* Model of src/app.py: the Lookalike-audience batch tool.                 *)
(*                                                                         *)
(* Names are real strings, built by concatenation as the source builds     *)
(* them, so that a suffixed name ("X-2") can coincide with another base    *)
(* name.  A ratio is held in thousandths (10 stands for 0.01); for every   *)
(* ratio of 0.001 .. 0.200 Python's int(round(ratio * 100)) agrees with    *)
(* round-half-to-even of thousandths / 10, which is what Round computes.   *)
(***************************************************************************)
EXTENDS Integers, Sequences, FiniteSets, TLC

\* ------------------------------------------------------------------ bounds
\* Longest comma-separated list typed, and most audiences selected.
MaxLen == 2
\* Largest batch (number of tuples) the user starts.
MaxTuples == 4
\* Largest existing-name set the resolver is exercised on (ResolverSpec).
MaxNames == 7

\* ------------------------------------------------------------ environment
\* Audiences the remote account may hold: two seed lists (one of them named
\* like a suffixed variant of the other) and two lookalikes left by earlier
\* runs.
SeedAudiences ==
  { [id |-> "101", name |-> "VIP List",   approximate_count |-> 5000],
    [id |-> "102", name |-> "VIP List-2", approximate_count |-> 8000] }

OldLookalikes ==
  { [id |-> "201", name |-> "TW-1%-VIP List",   approximate_count |-> 0],
    [id |-> "202", name |-> "TW-1%-VIP List-2", approximate_count |-> 0] }

\* The lookalikes in the account when the tool is opened: none, the first,
\* or the first and its suffixed variant.
AccountsBefore ==
  { {}, { a \in OldLookalikes : a.id = "201" }, OldLookalikes }

\* What the user can type in the ratio box, token by token (the text between
\* two commas); val is what float() makes of the stripped token.
RatioTokens ==
  { [text |-> "0.01",  kind |-> "num",   val |-> 10],
    [text |-> "0.011", kind |-> "num",   val |-> 11],
    [text |-> "0.02",  kind |-> "num",   val |-> 20],
    [text |-> "0",     kind |-> "num",   val |-> 0],
    [text |-> "0.25",  kind |-> "num",   val |-> 250],
    [text |-> "",      kind |-> "blank", val |-> 0],
    [text |-> "abc",   kind |-> "bad",   val |-> 0] }

\* What the user can type in the country box, token by token: codes in
\* either case, and a blank (an empty box, or a trailing comma).
CountryCodes == {"TW", "us"}

Policies == {"append", "skip", "fail"}

\* The value the resolver returns for "skip" (Python's None).
None == [kind |-> "none"]

TextsOver(S) == UNION { [1..n -> S] : n \in 1..MaxLen }

CountryTexts ==
  TextsOver(CountryCodes)
    \cup { << " " >> }
    \cup { Append(t, " ") : t \in { u \in TextsOver(CountryCodes) : Len(u) < MaxLen } }

\* A multiselect: distinct labels, in the order chosen, possibly none.
Selections(S) ==
  { s \in UNION { [1..n -> S] : n \in 0..MaxLen } :
      \A i, j \in 1..Len(s) : i # j => s[i] # s[j] }

VARIABLES
  pc,              \* "idle" | "loaded" | "running" | "done" | "resolver"
  account,         \* the audiences of the remote account
  audiences,       \* st.session_state["audiences"]
  message,         \* the last error or warning shown
  selected_ids,    \* the batch's inputs ...
  ratios,
  countries,
  countries_str,   \* the country text as typed (tokens)
  strategy,
  existing_names,  \* the batch's existing-name set
  names_at_start,  \* what the pre-batch refresh read
  total, done,
  si, ri, ci,      \* the three loops' positions
  successes, skipped, failures,
  calls,           \* creation calls the remote received, in order
  log,             \* per tuple: what the resolver was given and returned
  resolved         \* the resolver's last application (ResolverSpec)

vars == << pc, account, audiences, message, selected_ids, ratios, countries,
           countries_str, strategy, existing_names, names_at_start, total,
           done, si, ri, ci, successes, skipped, failures, calls, log,
           resolved >>

batchVars == << selected_ids, ratios, countries, countries_str, strategy,
                existing_names, names_at_start, total, done, si, ri, ci,
                successes, skipped, failures, calls, log >>

\* ------------------------------------------------------------ pure helpers
\* get_all_custom_audience_names: the non-empty names of the account.
get_all_custom_audience_names(acc) == { a.name : a \in { b \in acc : b.name # "" } }

\* get_all_custom_audiences: every audience (the order only affects display).
get_all_custom_audiences(acc) == acc

\* round(): n / d rounded to the nearest integer, halves to the even one.
Round(n, d) ==
  LET q == n \div d
      r == n % d
  IN  IF 2 * r > d \/ (2 * r = d /\ q % 2 = 1) THEN q + 1 ELSE q

\* parse_ratios: blank tokens dropped; a token that is not a number in
\* (0, 0.20] is an error naming it; no token left is an error.
parse_ratios(tokens) ==
  LET kept == SelectSeq(tokens, LAMBDA t : t.kind # "blank")
      bad  == SelectSeq(kept, LAMBDA t : t.kind = "bad" \/ t.val <= 0 \/ t.val > 200)
  IN  IF Len(bad) > 0 THEN [ok |-> FALSE, error |-> "ratio format: " \o bad[1].text, vals |-> << >>]
      ELSE IF Len(kept) = 0 THEN [ok |-> FALSE, error |-> "no ratio", vals |-> << >>]
      ELSE [ok |-> TRUE, error |-> "", vals |-> [i \in 1..Len(kept) |-> kept[i].val]]

Strip(c) == IF c = " " THEN "" ELSE c

Upper(c) == IF c = "us" THEN "US" ELSE c

RECURSIVE Dedup(_)
Dedup(s) ==
  IF Len(s) = 0 THEN s
  ELSE LET init == Dedup(SubSeq(s, 1, Len(s) - 1))
       IN  IF \E i \in 1..Len(init) : init[i] = s[Len(s)] THEN init
           ELSE Append(init, s[Len(s)])

parse_countries_dedup(tokens) ==
  LET kept == SelectSeq(tokens, LAMBDA c : Strip(c) # "")
  IN  Dedup([i \in 1..Len(kept) |-> Upper(Strip(kept[i]))])

\* [c.strip().upper() for c in countries_str.split(",") if c.strip()]
parse_countries(tokens) ==
  LET kept == SelectSeq(tokens, LAMBDA c : Strip(c) # "")
  IN  [i \in 1..Len(kept) |-> Upper(Strip(kept[i]))]

\* build_name: COUNTRY-PCT%-SOURCE_NAME, PCT = int(round(ratio * 100)).
build_name(country, ratio, source_name) ==
  country \o "-" \o ToString(Round(ratio * 100, 1000)) \o "%-" \o source_name

\* The while loop of next_available_name, entered with i.
RECURSIVE Probe(_, _, _)
Probe(base_name, existing, i) ==
  LET candidate == base_name \o "-" \o ToString(i)
  IN  IF candidate \notin existing THEN candidate
      ELSE Probe(base_name, existing, i + 1)

next_available_name_from1(base_name, existing, strat) ==
  IF base_name \notin existing THEN [kind |-> "name", name |-> base_name]
  ELSE IF strat = "skip" THEN None
  ELSE IF strat = "fail" THEN [kind |-> "raise", error |-> "name collision: " \o base_name]
  ELSE [kind |-> "name", name |-> Probe(base_name, existing, 3)]

next_available_name_noskip(base_name, existing, strat) ==
  IF base_name \notin existing THEN [kind |-> "name", name |-> base_name]
  ELSE IF strat = "fail" THEN [kind |-> "raise", error |-> "name collision: " \o base_name]
  ELSE [kind |-> "name", name |-> Probe(base_name, existing, 2)]

next_available_name_nofail(base_name, existing, strat) ==
  IF base_name \notin existing THEN [kind |-> "name", name |-> base_name]
  ELSE IF strat = "skip" THEN None
  ELSE [kind |-> "name", name |-> Probe(base_name, existing, 2)]

\* next_available_name: the name to create, None to skip, or the ValueError
\* raised (its text is the source's collision prefix followed by the base name).
next_available_name(base_name, existing, strat) ==
  IF base_name \notin existing THEN [kind |-> "name", name |-> base_name]
  ELSE IF strat = "skip" THEN None
  ELSE IF strat = "fail" THEN [kind |-> "raise", error |-> "name collision: " \o base_name]
  ELSE [kind |-> "name", name |-> Probe(base_name, existing, 2)]

\* name_by_id.get(sid, sid) over the filtered audiences.
name_by_id(filtered, sid) ==
  IF \E a \in filtered : a.id = sid
  THEN (CHOOSE a \in filtered : a.id = sid).name
  ELSE sid

\* The filter of the multiselect, with the form's keyword empty, the minimum
\* size set to 100 and no maximum.
Filtered(auds) == { a \in auds : ~(a.approximate_count < 100) }

\* The label of an option of the multiselect: "name (count) - id".
Label(a) ==
  a.name \o " (" \o (IF a.approximate_count # 0 THEN ToString(a.approximate_count) ELSE "N/A")
         \o ") - " \o a.id

id_by_label(filtered, lab) == (CHOOSE a \in filtered : Label(a) = lab).id

\* The id the remote gives the audience it creates (opaque to the tool).
NewId(acc) == "9" \o ToString(Cardinality(acc))

\* ------------------------------------------------------------------- Init
NoBatch ==
  /\ selected_ids = << >> /\ ratios = << >> /\ countries = << >>
  /\ countries_str = << >> /\ strategy = "append"
  /\ existing_names = {} /\ names_at_start = {}
  /\ total = 0 /\ done = 0 /\ si = 1 /\ ri = 1 /\ ci = 1
  /\ successes = << >> /\ skipped = << >> /\ failures = << >>
  /\ calls = << >> /\ log = << >>

NoResolved == [base |-> "", strat |-> "append", before |-> {}, result |-> None]

Init ==
  /\ pc = "idle"
  /\ account \in { SeedAudiences \cup X : X \in AccountsBefore }
  /\ audiences = {}
  /\ message = ""
  /\ resolved = NoResolved
  /\ NoBatch

\* ---------------------------------------------------------------- actions
\* The connect button: load the audiences, or show the error.
Connect ==
  /\ pc \in {"idle", "loaded"}
  /\ \E ok \in BOOLEAN :
       IF ok
       THEN /\ audiences' = get_all_custom_audiences(account)
            /\ pc' = "loaded"
            /\ message' = "loaded"
       ELSE /\ message' = "connect failed"
            /\ UNCHANGED << pc, audiences >>
  /\ UNCHANGED << account, resolved >>
  /\ UNCHANGED batchVars

\* st.error / st.warning followed by st.stop(): the run ends, nothing started.
Stop(msg) ==
  /\ message' = msg
  /\ UNCHANGED << pc, account, audiences, resolved >>
  /\ UNCHANGED batchVars

\* The create button passed validation: the pre-batch refresh of the
\* existing names, the counters and the empty buckets.
Begin(ids, vals, cs, ct, pol) ==
  /\ Len(ids) * Len(vals) * Len(cs) <= MaxTuples
  /\ selected_ids' = ids
  /\ ratios' = vals
  /\ countries' = cs
  /\ countries_str' = ct
  /\ strategy' = pol
  /\ existing_names' = get_all_custom_audience_names(account)
  /\ names_at_start' = get_all_custom_audience_names(account)
  /\ total' = Len(ids) * Len(vals) * Len(cs)
  /\ done' = 0
  /\ si' = 1 /\ ri' = 1 /\ ci' = 1
  /\ successes' = << >> /\ skipped' = << >> /\ failures' = << >>
  /\ calls' = << >> /\ log' = << >>
  /\ pc' = "running"
  /\ message' = "creating"
  /\ UNCHANGED << account, audiences, resolved >>

\* The create button: validation in the source's order (ratios, countries,
\* selection, refresh), each failure ending the run with its message.
Start ==
  /\ pc = "loaded"
  /\ \E rt \in TextsOver(RatioTokens) :
       LET pr == parse_ratios(rt)
       IN  IF ~pr.ok THEN Stop(pr.error)
           ELSE \E ct \in CountryTexts :
                  LET cs == parse_countries(ct)
                  IN  IF Len(cs) = 0 THEN Stop("no country")
                      ELSE \E selected \in Selections({ Label(a) : a \in Filtered(audiences) }) :
                             LET ids == [i \in 1..Len(selected) |->
                                           id_by_label(Filtered(audiences), selected[i])]
                             IN  IF Len(ids) = 0 THEN Stop("no seed")
                                 ELSE \E refresh_ok \in BOOLEAN :
                                        IF ~refresh_ok THEN Stop("refresh failed")
                                        ELSE \E pol \in Policies :
                                               Begin(ids, pr.vals, cs, ct, pol)

\* The three nested for loops: the position after (s, r, c).
AdvanceSeedInner(s, r, c, S, R, C) ==
  IF s < S THEN [si |-> s + 1, ri |-> r, ci |-> c]
  ELSE IF r < R THEN [si |-> 1, ri |-> r + 1, ci |-> c]
  ELSE IF c < C THEN [si |-> 1, ri |-> 1, ci |-> c + 1]
  ELSE [si |-> S + 1, ri |-> 1, ci |-> 1]

Advance(s, r, c, S, R, C) ==
  IF c < C THEN [si |-> s, ri |-> r, ci |-> c + 1]
  ELSE IF r < R THEN [si |-> s, ri |-> r + 1, ci |-> 1]
  ELSE [si |-> s + 1, ri |-> 1, ci |-> 1]

\* existing_names.add(final_name), reached only after a successful creation.
NamesAfterAlways(existing, base_name, res, ok) ==
  IF res.kind = "name" THEN existing \cup {res.name} ELSE existing

NamesAfterNever(existing, base_name, res, ok) == existing

NamesAfterBase(existing, base_name, res, ok) ==
  IF res.kind = "name" /\ ok THEN existing \cup {base_name} ELSE existing

NamesAfter(existing, base_name, res, ok) ==
  IF res.kind = "name" /\ ok THEN existing \cup {res.name} ELSE existing

\* except Exception: failures.append((base_name, str(e))).
FailuresAfterAlso(fs, base_name, res, ok) ==
  IF res.kind = "raise" THEN Append(fs, << base_name, res.error >>)
  ELSE IF res.kind = "none" THEN Append(fs, << base_name, "skipped" >>)
  ELSE IF ~ok THEN Append(fs, << base_name, "remote error" >>)
  ELSE fs

FailuresAfter(fs, base_name, res, ok) ==
  IF res.kind = "raise" THEN Append(fs, << base_name, res.error >>)
  ELSE IF res.kind = "name" /\ ~ok THEN Append(fs, << base_name, "remote error" >>)
  ELSE fs

\* The try/except inside the loops swallows the error: the loops go on until
\* the seeds are exhausted.
PcAfterTupleAbort(next_si, S, raised) ==
  IF raised \/ next_si > S THEN "done" ELSE "running"

PcAfterTuple(next_si, S, raised) ==
  IF next_si > S THEN "done" ELSE "running"

\* One pass of the innermost loop body, for the tuple at (si, ri, ci).
Step ==
  /\ pc = "running"
  /\ LET sid       == selected_ids[si]
         src_name  == name_by_id(Filtered(audiences), sid)
         r         == ratios[ri]
         country   == countries[ci]
         base_name == build_name(country, r, src_name)
         res       == next_available_name(base_name, existing_names, strategy)
         next      == Advance(si, ri, ci, Len(selected_ids), Len(ratios), Len(countries))
     IN  \E ok \in (IF res.kind = "name" THEN BOOLEAN ELSE {FALSE}) :
          LET called == res.kind = "name"
              raised == res.kind = "raise" \/ (called /\ ~ok)
              bucket == IF res.kind = "none" THEN "skipped"
                        ELSE IF raised THEN "failure" ELSE "success"
          IN  /\ skipped' = IF res.kind = "none" THEN Append(skipped, base_name) ELSE skipped
              /\ calls' = IF called
                           THEN Append(calls, [idx |-> done + 1, sid |-> sid, ratio |-> r,
                                               country |-> country, name |-> res.name,
                                               ok |-> ok])
                           ELSE calls
              /\ account' = IF called /\ ok
                             THEN account \cup {[id |-> NewId(account), name |-> res.name,
                                                  approximate_count |-> 0]}
                             ELSE account
              /\ successes' = IF called /\ ok
                               THEN Append(successes, << res.name, NewId(account) >>)
                               ELSE successes
              /\ existing_names' = NamesAfter(existing_names, base_name, res, ok)
              /\ failures' = FailuresAfter(failures, base_name, res, ok)
              /\ log' = Append(log, [si |-> si, ri |-> ri, ci |-> ci, sid |-> sid,
                                      ratio |-> r, country |-> country, base |-> base_name,
                                      before |-> existing_names, result |-> res,
                                      called |-> called, bucket |-> bucket])
              /\ done' = done + 1
              /\ si' = next.si /\ ri' = next.ri /\ ci' = next.ci
              /\ pc' = PcAfterTuple(next.si, Len(selected_ids), raised)
  /\ UNCHANGED << audiences, message, selected_ids, ratios, countries, countries_str,
                  strategy, names_at_start, total, resolved >>

Next == Connect \/ Start \/ Step

Spec == Init /\ [][Next]_vars

\* The loops are sequential code: a started batch keeps taking its next pass.
FairSpec == Spec /\ WF_vars(Step)

\* ---------------------------------------------- the resolver on its own
ResolverBases == {"TW-1%-VIP List", "TW-1%-VIP List-2"}

ResolverNames ==
  {"TW-1%-VIP List", "TW-1%-VIP List-2", "TW-1%-VIP List-3", "TW-1%-VIP List-4",
   "TW-1%-VIP List-5", "TW-1%-VIP List-2-2"}

ResolverInit ==
  /\ pc = "resolver"
  /\ account = {} /\ audiences = {} /\ message = ""
  /\ resolved = NoResolved
  /\ selected_ids = << >> /\ ratios = << >> /\ countries = << >>
  /\ countries_str = << >> /\ strategy = "append"
  /\ existing_names \in SUBSET ResolverNames /\ names_at_start = {}
  /\ total = 0 /\ done = 0 /\ si = 1 /\ ri = 1 /\ ci = 1
  /\ successes = << >> /\ skipped = << >> /\ failures = << >>
  /\ calls = << >> /\ log = << >>

\* A call of next_available_name on the current set.
Resolve ==
  /\ pc = "resolver"
  /\ \E base_name \in ResolverBases, strat \in Policies :
       resolved' = [base |-> base_name, strat |-> strat, before |-> existing_names,
                    result |-> next_available_name(base_name, existing_names, strat)]
  /\ UNCHANGED << pc, account, audiences, message >>
  /\ UNCHANGED batchVars

\* The caller's existing_names.add(final_name) of the name just returned.
Accept ==
  /\ pc = "resolver"
  /\ resolved.result.kind = "name"
  /\ resolved.before = existing_names
  /\ Cardinality(existing_names) < MaxNames
  /\ existing_names' = NamesAfter(existing_names, resolved.base, resolved.result, TRUE)
  /\ UNCHANGED << pc, account, audiences, message, resolved, selected_ids, ratios,
                  countries, countries_str, strategy, names_at_start, total, done,
                  si, ri, ci, successes, skipped, failures, calls, log >>

ResolverNext == Resolve \/ Accept

ResolverSpec == ResolverInit /\ [][ResolverNext]_vars

\* ------------------------------------------------------------- properties
InBatch == pc \in {"running", "done"}

SuccessName(i) == successes[i][1]

SuccessNames == { SuccessName(i) : i \in 1..Len(successes) }

Entries(b) == { k \in 1..Len(log) : log[k].bucket = b }

FailedCalls == { i \in 1..Len(calls) : ~calls[i].ok }

Suffixed(base_name, k) == base_name \o "-" \o ToString(k)

\* The existing-name set as it was once tuple k had been processed.
SetAfter(k) == IF k < Len(log) THEN log[k + 1].before ELSE existing_names

\* The first end-to-end scenario's inputs.
ScenarioInputs ==
  /\ InBatch
  /\ selected_ids = << "101" >>
  /\ ratios = << 10, 20 >>
  /\ countries = << "TW", "US" >>

ScenarioNames == << "TW-1%-VIP List", "US-1%-VIP List", "TW-2%-VIP List", "US-2%-VIP List" >>

C2_ExistingNamesInvariant ==
  InBatch =>
    /\ existing_names = names_at_start \cup SuccessNames
    /\ \A k \in 1..Len(log) :
         log[k].bucket # "success" => SetAfter(k) = log[k].before

C2_Witness ==
  /\ pc = "done"
  /\ \E k \in Entries("failure") : log[k].called
  /\ Entries("skipped") # {}
  /\ SuccessNames \ names_at_start # {}

\* C3: when two tuples of a batch have the same base name and the first was
\* created, the second is resolved against a set holding the first's final
\* name: under append it gets another, free name, under skip it is Skipped,
\* under fail it is a Failure; the success names of a batch are pairwise
\* distinct and none was in the set at batch start.
C3_IntraBatchDedup ==
  InBatch =>
    /\ \A i, j \in 1..Len(successes) : i # j => SuccessName(i) # SuccessName(j)
    /\ SuccessNames \cap names_at_start = {}
    /\ \A i, j \in 1..Len(log) :
         (i < j /\ log[i].base = log[j].base /\ log[i].bucket = "success") =>
           /\ log[i].result.name \in log[j].before
           /\ log[j].base \in log[j].before
           /\ strategy = "append" =>
                /\ log[j].result.kind = "name"
                /\ log[j].result.name # log[i].result.name
                /\ log[j].result.name \notin log[j].before
                /\ \E n \in 2..(Cardinality(log[j].before) + 2) :
                     log[j].result.name = Suffixed(log[j].base, n)
           /\ strategy = "skip" => log[j].bucket = "skipped"
           /\ strategy = "fail" => log[j].bucket = "failure" /\ ~log[j].called

C3_Witness ==
  /\ InBatch /\ strategy = "append"
  /\ \E i, j \in 1..Len(log) :
       /\ i < j /\ log[i].base = log[j].base
       /\ log[i].bucket = "success" /\ log[i].result.name = log[i].base
       /\ log[j].bucket = "success" /\ log[j].result.name = Suffixed(log[j].base, 2)

\* C4: under append the resolver returns the base name when it is not in the
\* set, and otherwise base-k for the smallest k >= 2 with base-k not in the
\* set (base and base-2 .. base-5 present gives base-6); the name returned is
\* never in the set.
C4_AppendResolver ==
  (pc = "resolver" /\ resolved # NoResolved /\ resolved.strat = "append") =>
    LET b == resolved.base
        E == resolved.before
        res == resolved.result
    IN  /\ res.kind = "name"
        /\ res.name \notin E
        /\ b \notin E => res.name = b
        /\ b \in E =>
             \E k \in 2..(Cardinality(E) + 2) :
               /\ res.name = Suffixed(b, k)
               /\ \A j \in 2..(k - 1) : Suffixed(b, j) \in E
        /\ ({b} \cup { Suffixed(b, j) : j \in 2..5 } \subseteq E /\ Suffixed(b, 6) \notin E)
             => res.name = Suffixed(b, 6)

C4_Witness ==
  /\ pc = "resolver" /\ resolved.strat = "append"
  /\ resolved.base = "TW-1%-VIP List"
  /\ {resolved.base} \cup { Suffixed(resolved.base, j) : j \in 2..5 } \subseteq resolved.before
  /\ resolved.result = [kind |-> "name", name |-> "TW-1%-VIP List-6"]

\* C5: under skip a tuple whose base name is in the set gets the skip
\* sentinel whatever suffixes are free, is recorded Skipped with its base
\* name and causes no creation call; a tuple whose base name is absent is
\* sent for creation under the base name.  With "TW-1%-VIP List" present the
\* scenario skips that tuple and creates the other three.
C5_SkipPolicy ==
  (InBatch /\ strategy = "skip") =>
    /\ \A k \in 1..Len(log) :
         /\ log[k].base \in log[k].before =>
              /\ log[k].result = None
              /\ log[k].bucket = "skipped"
              /\ ~log[k].called
              /\ \A c \in 1..Len(calls) : calls[c].idx # k
              /\ \E m \in 1..Len(skipped) : skipped[m] = log[k].base
         /\ log[k].base \notin log[k].before =>
              /\ log[k].called
              /\ \E c \in 1..Len(calls) : calls[c].idx = k /\ calls[c].name = log[k].base
    /\ Len(skipped) = Cardinality({ k \in 1..Len(log) : log[k].base \in log[k].before })
    /\ (/\ ScenarioInputs /\ pc = "done" /\ FailedCalls = {}
        /\ { ScenarioNames[n] : n \in 1..4 } \cap names_at_start = {"TW-1%-VIP List"})
         => /\ skipped = << "TW-1%-VIP List" >>
            /\ [n \in 1..Len(successes) |-> SuccessName(n)]
                 = << "US-1%-VIP List", "TW-2%-VIP List", "US-2%-VIP List" >>
            /\ failures = << >>

C5_Witness ==
  /\ ScenarioInputs /\ pc = "done" /\ strategy = "skip" /\ FailedCalls = {}
  /\ "TW-1%-VIP List" \in names_at_start
  /\ "TW-1%-VIP List-2" \notin names_at_start
  /\ skipped = << "TW-1%-VIP List" >>
  /\ Len(successes) = 3

\* C6: under fail a tuple whose base name is in the set makes the resolver
\* raise the collision error carrying the base name, with no suffixed name
\* returned; the tuple is a Failure with that base name, no creation call is
\* made for it, and the batch goes on to the next tuple.
C6_FailPolicy ==
  (InBatch /\ strategy = "fail") =>
    /\ \A k \in 1..Len(log) :
         log[k].base \in log[k].before =>
           /\ log[k].result = [kind |-> "raise", error |-> "name collision: " \o log[k].base]
           /\ log[k].bucket = "failure"
           /\ ~log[k].called
           /\ \A c \in 1..Len(calls) : calls[c].idx # k
           /\ \E m \in 1..Len(failures) : failures[m] = << log[k].base, log[k].result.error >>
           /\ SetAfter(k) = log[k].before
           /\ (k < total /\ Len(log) = k) => pc = "running"
    /\ pc = "done" => Len(log) = total

C6_Witness ==
  /\ pc = "done" /\ strategy = "fail"
  /\ \E k \in 1..Len(log) :
       /\ log[k].result.kind = "raise"
       /\ k < Len(log)
       /\ log[k + 1].bucket = "success"

\* C7: a started batch reaches its end with every tuple processed, whatever
\* creation calls fail; a failed call is one Failure of its tuple, no tuple
\* gets a second call, and what was created stays created.
C7_Safety ==
  InBatch =>
    /\ \A c, d \in 1..Len(calls) : c # d => calls[c].idx # calls[d].idx
    /\ \A c \in FailedCalls :
         /\ log[calls[c].idx].bucket = "failure"
         /\ \E m \in 1..Len(failures) :
              failures[m] = << log[calls[c].idx].base, "remote error" >>
    /\ Cardinality(FailedCalls)
         = Cardinality({ m \in 1..Len(failures) : failures[m][2] = "remote error" })
    /\ Len(calls) <= done
    /\ SuccessNames \subseteq get_all_custom_audience_names(account)
    /\ pc = "done" => Len(log) = total

C8_Original ==
  InBatch =>
    \A i, j \in 1..Len(log) :
      (i < j /\ log[i].result.kind = "name" /\ log[j].result.kind = "name")
        => log[i].result.name # log[j].result.name

\* C8 (amended): within a batch the resolver never returns a name it
\* returned for an earlier tuple whose creation succeeded; a name is returned
\* again only when every earlier tuple that received it failed remotely.
C8_NoReuseOfCreatedName ==
  InBatch =>
    \A i, j \in 1..Len(log) :
      (i < j /\ log[i].result.kind = "name" /\ log[j].result.kind = "name"
             /\ log[i].result.name = log[j].result.name)
        => /\ log[i].bucket = "failure"
           /\ log[j].result.name \notin SetAfter(i)

C8_Witness ==
  /\ InBatch
  /\ \E i, j, k \in 1..Len(log) :
       /\ i < j /\ j < k
       /\ log[i].bucket = "failure" /\ log[i].called
       /\ log[j].result = log[i].result /\ log[j].bucket = "success"
       /\ log[k].base = log[j].base /\ log[k].result.kind = "name"
       /\ log[k].result.name # log[j].result.name

\* A country code that the list holds more than once.
Repeated(c) == Cardinality({ i \in 1..Len(countries) : countries[i] = c }) > 1

\* C9 (as stated): every occurrence of a repeated country code has its own
\* tuple, and each produces a created audience (here: even with no remote
\* failure and no base name taken before the batch).
C9_Original ==
  (pc = "done" /\ FailedCalls = {}) =>
    \A k \in 1..Len(log) :
      (Repeated(log[k].country) /\ log[k].base \notin names_at_start)
        => log[k].bucket = "success"

\* C9 (amended): every typed, non-blank country token is kept, so every
\* occurrence of a repeated code has its own tuple; under append each
\* occurrence whose creation call succeeds produces an audience under a name
\* of its own, while under skip or fail a later occurrence of a code whose
\* earlier occurrence was created is Skipped or a Failure.
C9_DuplicateCountriesKept ==
  InBatch =>
    /\ Len(countries) = Cardinality({ i \in 1..Len(countries_str) : countries_str[i] # " " })
    /\ total = Len(selected_ids) * Len(ratios) * Len(countries)
    /\ pc = "done" =>
         \A s \in 1..Len(selected_ids), r \in 1..Len(ratios), c \in 1..Len(countries) :
           Cardinality({ k \in 1..Len(log) :
                           log[k].si = s /\ log[k].ri = r /\ log[k].ci = c }) = 1
    /\ \A i, j \in 1..Len(log) :
         (/\ i < j /\ log[i].si = log[j].si /\ log[i].ri = log[j].ri
          /\ log[i].country = log[j].country) =>
           /\ strategy = "append" =>
                /\ log[j].called
                /\ (log[i].bucket = "success" /\ log[j].bucket = "success")
                     => log[i].result.name # log[j].result.name
           /\ (strategy = "skip" /\ log[i].bucket = "success") => log[j].bucket = "skipped"
           /\ (strategy = "fail" /\ log[i].bucket = "success") => log[j].bucket = "failure"

C9_Witness ==
  /\ pc = "done" /\ strategy = "append"
  /\ countries = << "TW", "TW" >>
  /\ total = 2 /\ Len(successes) = 2
  /\ SuccessName(1) # SuccessName(2)

\* C10: tuples are processed, and their creation calls made, seed outer,
\* ratio middle, country inner, each list in its input order; the scenario's
\* four creations happen in the order TW-1%, US-1%, TW-2%, US-2%.
C10_NestingOrder ==
  InBatch =>
    /\ \A k \in 1..Len(log) :
         LET R == Len(ratios)
             C == Len(countries)
         IN  /\ log[k].si = ((k - 1) \div (R * C)) + 1
             /\ log[k].ri = (((k - 1) \div C) % R) + 1
             /\ log[k].ci = ((k - 1) % C) + 1
             /\ log[k].sid = selected_ids[log[k].si]
             /\ log[k].ratio = ratios[log[k].ri]
             /\ log[k].country = countries[log[k].ci]
    /\ \A c, d \in 1..Len(calls) : c < d => calls[c].idx < calls[d].idx
    /\ \A c \in 1..Len(calls) :
         /\ calls[c].sid = log[calls[c].idx].sid
         /\ calls[c].ratio = log[calls[c].idx].ratio
         /\ calls[c].country = log[calls[c].idx].country
    /\ (/\ ScenarioInputs /\ strategy = "append" /\ pc = "done" /\ FailedCalls = {}
        /\ { ScenarioNames[n] : n \in 1..4 } \cap names_at_start = {})
         => /\ [c \in 1..Len(calls) |-> calls[c].name] = ScenarioNames
            /\ [n \in 1..Len(successes) |-> SuccessName(n)] = ScenarioNames

C10_Witness ==
  /\ ScenarioInputs /\ strategy = "append" /\ pc = "done"
  /\ [c \in 1..Len(calls) |-> calls[c].name] = ScenarioNames
  /\ Len(successes) = 4

====
